---- MODULE Spec2Model ----
(***************************************************************************)
(* Model of the unit graph of src/src/units.py: class Unit (links, the     *)
(* AND-join gate, the dispatch protocol check_gate_and_run/run_dependent)  *)
(* and class Pickleable (the snapshot discipline).                         *)
(***************************************************************************)
EXTENDS Integers, FiniteSets, Sequences, TLC

\* ---------------------------------------------------------------- bounds

\* The units of the model; None (0) is the src the external driver passes.
Units == {1, 2, 3}
None == 0
Srcs == Units \cup {None}

\* Execution contexts (pool workers and driver threads) of the dispatch model.
MaxThreads == 2
\* check_gate_and_run calls the external driver makes.
MaxTriggers == 2
\* Threads and direct calls (open_gate, thread_pool) of the gate model and of
\* the thread pool model.
MaxGateThreads == 3
MaxCalls == 4
\* Threads of the model of link calls concurrent with open_gate.
MaxRaceThreads == 2
\* Calls the threads of that model make.
MaxRaceCalls == 3
\* Restores of the graph from a snapshot in the snapshot model.
MaxSnapshots == 1
\* initialize_dependent calls of the driver in the model of graphs with cycles.
MaxTraversals == 1

VARIABLES
    links_from,      \* Unit.links_from: unit -> (predecessor -> fired flag)
    links_to,        \* Unit.links_to: unit -> (successor -> False)
    gate_block,      \* Unit.gate_block[0], a cell
    gate_skip,       \* Unit.gate_skip[0]
    gate_block_not,  \* Unit.gate_block_not[0]
    gate_skip_not,   \* Unit.gate_skip_not[0]
    is_initialized,  \* Unit.is_initialized
    gate_lock_,      \* Unit.gate_lock_: 0 when free, else the holding thread
    run_lock_,       \* Unit.run_lock_: 0 when free, else the holding thread
    run,             \* the instance attribute "run": "wrapped" or "None"
    fails,           \* which overridden initialize()/run() bodies may raise
    repeaters,       \* the units of class Repeater, which overrides open_gate
    snapshots,       \* history: how often the graph was restored from a snapshot
    pool,            \* tasks submitted with callInThread, not yet started
    th,              \* the threads: position and locals of each
    triggers,        \* calls made by the external driver so far
    arrived,         \* history: srcs that called open_gate since its last True
    log,             \* history: per-unit counters of what has happened
    pool_,           \* Unit.pool_: None (0), or the ThreadPool instance n
    pool_lock_       \* Unit.pool_lock_: 0 when free, else the holding thread

graph == <<links_from, links_to>>
cells == <<gate_block, gate_skip, gate_block_not, gate_skip_not>>
locks == <<gate_lock_, run_lock_>>
class_attrs == <<pool_, pool_lock_>>
vars == <<links_from, links_to, gate_block, gate_skip, gate_block_not,
          gate_skip_not, is_initialized, gate_lock_, run_lock_, run, fails,
          repeaters, snapshots, pool, th, triggers, arrived, log, pool_, pool_lock_>>

\* ------------------------------------------------------------ dictionaries

\* d[k] = v on a dict
Put(d, k, v) == [x \in (DOMAIN d) \cup {k} |-> IF x = k THEN v ELSE d[x]]
\* del d[k]
Del(d, k) == [x \in (DOMAIN d) \ {k} |-> d[x]]
EmptyDict == [x \in {} |-> FALSE]

\* A routing cell: a static value, or a zero-argument predicate (fn) whose
\* result is whatever the external state makes it at the time of the call.
StaticCell(b) == [fn |-> FALSE, v |-> b]
FnCell == [fn |-> TRUE, v |-> FALSE]

\* Unit.callvle: r is a possible result of callvle on the cell
callvle(cell, r) == IF cell.fn THEN r \in BOOLEAN ELSE r = cell.v

\* The routing condition as written at both decision points:
\* (a and not b) or ((not a) and b), a and b read again in the second operand.
RoutingCond_half(a1, b1, a2, b2) == a1 /\ ~b1

RoutingCond(a1, b1, a2, b2) == (a1 /\ ~b1) \/ (~a2 /\ b2)

\* ----------------------------------------------------------------- threads

IdleThread == [pc |-> "idle", op |-> "none", self |-> None, src |-> None,
               res |-> "none", todo |-> {}, sent |-> {}, seen |-> {},
               stack |-> <<>>]

\* History of a unit: direct open_gate calls returned (calls), driver triggers
\* (trig), pool tasks started by src (got), skip decisions taken (skips),
\* initialize() calls entered (inits) and returned (initok), run() bodies
\* entered (started) and returned (runs), exceptions of initialize() or the
\* body that left check_gate_and_run (raised), calls of a None run (typeerr),
\* locks of the unit that were held when it was last serialized (held),
\* initialize_dependent calls the driver made on the unit (dep), initialize()
\* calls an initialize_dependent traversal made on it that returned (depinit)
ZeroLog == [calls |-> 0, trig |-> 0, got |-> [s \in Units |-> 0], skips |-> 0,
            inits |-> 0, initok |-> 0, started |-> 0, runs |-> 0, raised |-> 0,
            typeerr |-> 0, held |-> 0, dep |-> 0, depinit |-> 0]

NoTasks == [task \in Units \X Units |-> 0]

\* Unit.__init__ and Unit.init_unpickled: the fields of freshly constructed
\* units, their links apart
InitFresh ==
    /\ is_initialized = [u \in Units |-> FALSE]
    /\ gate_lock_ = [u \in Units |-> 0]
    /\ run_lock_ = [u \in Units |-> 0]
    /\ run = [u \in Units |-> "wrapped"]
    /\ pool = NoTasks
    /\ snapshots = 0
    /\ triggers = 0
    /\ arrived = [u \in Units |-> {}]
    /\ log = [u \in Units |-> ZeroLog]
    /\ pool_ = None
    /\ pool_lock_ = 0

\* Fresh units, all of class Unit
InitState ==
    /\ InitFresh
    /\ repeaters = {}

\* Unit.__init__ lines 153-156 and the base class bodies of initialize() and
\* run(), which do not raise
InitPlain ==
    /\ gate_block = [u \in Units |-> StaticCell(FALSE)]
    /\ gate_skip = [u \in Units |-> StaticCell(FALSE)]
    /\ gate_block_not = [u \in Units |-> StaticCell(FALSE)]
    /\ gate_skip_not = [u \in Units |-> StaticCell(FALSE)]
    /\ fails = [init |-> {}, run |-> {}]

InitFields == InitState /\ InitPlain

\* Unit.__init__ lines 151-152: no links yet
InitUnits ==
    /\ InitFields
    /\ links_from = [u \in Units |-> EmptyDict]
    /\ links_to = [u \in Units |-> EmptyDict]

\* The links that link_from calls for the edges E (pairs <<src, dst>>) leave
LinksFromOf(E) == [u \in Units |-> [s \in {x \in Units : <<x, u>> \in E} |-> FALSE]]
LinksToOf(E) == [u \in Units |-> [d \in {x \in Units : <<u, x>> \in E} |-> FALSE]]

\* ------------------------------------------------------------- link / unlink

\* Unit.link_from
link_from_bug(self, src) ==
    /\ links_from' = [links_from EXCEPT ![self] = Put(@, src, FALSE)]
    /\ links_to' = links_to

link_from(self, src) ==
    /\ links_from' = [links_from EXCEPT ![self] = Put(@, src, FALSE)]
    /\ links_to' = [links_to EXCEPT ![src] = Put(@, self, FALSE)]

\* Unit.unlink_from, called where gate_lock_ is free (it is taken and released)
unlink_from_oneside(self, src) ==
    /\ gate_lock_[self] = 0
    /\ links_from' = [links_from EXCEPT ![self] = Del(@, src)]
    /\ links_to' = links_to

unlink_from(self, src) ==
    /\ gate_lock_[self] = 0
    /\ links_to' = [links_to EXCEPT ![src] = Del(@, self)]
    /\ links_from' = [links_from EXCEPT ![self] = Del(@, src)]

\* Neither del of unlink_from_all raises KeyError
NoKeyError(self) ==
    /\ \A s \in DOMAIN links_from[self] : self \in DOMAIN links_to[s]
    /\ \A d \in DOMAIN links_to[self] : self \in DOMAIN links_from[d]

\* Unit.unlink_from_all, on its path without KeyError: the first loop deletes
\* self from every predecessor's links_to (its own included, on a self-link),
\* the second from every remaining successor's links_from, then both clear.
unlink_from_all(self) ==
    /\ gate_lock_[self] = 0
    /\ NoKeyError(self)
    /\ LET preds == DOMAIN links_from[self]
           lt1 == [u \in Units |->
                     IF u \in preds THEN Del(links_to[u], self) ELSE links_to[u]]
           succs == DOMAIN lt1[self]
           lf1 == [u \in Units |->
                     IF u \in succs THEN Del(links_from[u], self)
                     ELSE links_from[u]]
       IN /\ links_to' = [lt1 EXCEPT ![self] = EmptyDict]
          /\ links_from' = [lf1 EXCEPT ![self] = EmptyDict]

LinkFrom ==
    \E self \in Units, src \in Units :
        /\ link_from(self, src)
        /\ UNCHANGED <<cells, is_initialized, locks, run, fails, repeaters, snapshots, pool, th,
                       triggers, arrived, log, class_attrs>>

UnlinkFrom ==
    \E self \in Units, src \in Units :
        /\ unlink_from(self, src)
        /\ UNCHANGED <<cells, is_initialized, locks, run, fails, repeaters, snapshots, pool, th,
                       triggers, arrived, log, class_attrs>>

UnlinkFromAll ==
    \E self \in Units :
        /\ unlink_from_all(self)
        /\ UNCHANGED <<cells, is_initialized, locks, run, fails, repeaters, snapshots, pool, th,
                       triggers, arrived, log, class_attrs>>

\* ------------------------------------------------------------------ gate

\* The predecessors of a unit: the keys of links_from
Preds(u) == DOMAIN links_from[u]

\* open_gate line 274: self.links_from[src] = True when src is a key
MarkFired(d, src) == IF src \in DOMAIN d THEN [d EXCEPT ![src] = TRUE] ELSE d

\* open_gate line 275: all(self.links_from.values())
AllFired_any(d) == \E s \in DOMAIN d : d[s]

AllFired(d) == \A s \in DOMAIN d : d[s]

\* open_gate lines 278-279: reset activation flags
ResetFlags_keep(d) == d

ResetFlags(d) == [s \in DOMAIN d |-> FALSE]

\* gate_lock_.acquire() by thread t: blocks while the lock is held
GateAcquire_nolock(t, u) == gate_lock_' = gate_lock_

GateAcquire(t, u) ==
    /\ gate_lock_[u] = 0
    /\ gate_lock_' = [gate_lock_ EXCEPT ![u] = t]

\* gate_lock_.release()
GateRelease(u) == gate_lock_' = [gate_lock_ EXCEPT ![u] = 0]

\* History: the log l with one more event of unit u
Inc(l, u, field) == [l EXCEPT ![u][field] = @ + 1]
IncGot(l, u, s) == [l EXCEPT ![u].got[s] = @ + 1]
Bump(u, field) == log' = Inc(log, u, field)

\* History: a direct open_gate call of thread record r on u has returned
Counted(l, r, u) == IF r.op = "open_gate" THEN Inc(l, u, "calls") ELSE l
CountCall(r, u) == log' = Counted(log, r, u)

\* initialize_dependent lines 226 and 233: the for loop of the innermost call
\* goes on with the successors left; a loop that is through returns to the
\* loop of the calling initialize_dependent (the top of the stack), the
\* outermost one to the driver
RECURSIVE Continue(_)
Continue(r) ==
    IF r.todo # {}
    THEN [r EXCEPT !.pc = "id_loop", !.src = None, !.seen = {}]
    ELSE IF r.stack = <<>>
         THEN IdleThread
         ELSE Continue([r EXCEPT !.self = Head(r.stack).unit,
                                 !.todo = Head(r.stack).todo,
                                 !.stack = Tail(r.stack)])

\* initialize_dependent lines 229-230: continue on a closed gate, which is to
\* go on with the loop of the unit that made the call
Pruned(r) == Continue([r EXCEPT !.todo = {}])

\* The thread's position after open_gate returned `open`: a direct call ends;
\* check_gate_and_run line 200 returns on a closed gate, else goes on;
\* initialize_dependent line 229 continues on a closed gate, else goes on
AfterGate(r, open) ==
    IF r.op = "cgr" /\ open
    THEN [r EXCEPT !.pc = "skip"]
    ELSE IF r.op = "cgr"
         THEN IdleThread
         ELSE IF r.op = "initdep"
              THEN (IF open THEN [r EXCEPT !.pc = "id_init"] ELSE Pruned(r))
              ELSE [r EXCEPT !.pc = "idle",
                             !.res = IF open THEN "open" ELSE "closed"]

\* The first idle thread takes the next call
FirstIdle(t) ==
    /\ th[t].pc = "idle"
    /\ \A t2 \in DOMAIN th : t2 < t => th[t2].pc # "idle"

\* The locals of a thread that enters operation on unit u with argument s
Begin(operation, u, s) ==
    [IdleThread EXCEPT !.pc = "og_acquire", !.op = operation, !.self = u,
                       !.src = s]

\* Repeater.open_gate: the gate is always open; no lock is taken and no
\* arrival flag is read or written
Repeater_open_gate(t, r, l) ==
    /\ th' = [th EXCEPT ![t] = AfterGate(r, TRUE)]
    /\ log' = Counted(l, r, r.self)
    /\ UNCHANGED gate_lock_

\* open_gate lines 269-272 by thread t with the locals r: the gate lock is
\* taken (acquire() blocks until it is free); with no predecessors the gate is
\* open and the lock is released at once. l is the history so far.
og_acquire_nolen(t, r, l) ==
    /\ GateAcquire(t, r.self)
    /\ th' = [th EXCEPT ![t] = [r EXCEPT !.pc = "og_mark"]]
    /\ log' = l

og_acquire(t, r, l) ==
    LET u == r.self IN
    /\ IF u \in repeaters
       THEN Repeater_open_gate(t, r, l)
       ELSE IF DOMAIN links_from[u] = {}
       THEN /\ gate_lock_[u] = 0
            /\ th' = [th EXCEPT ![t] = AfterGate(r, TRUE)]
            /\ log' = Counted(l, r, u)
            /\ UNCHANGED gate_lock_
       ELSE /\ GateAcquire(t, u)
            /\ th' = [th EXCEPT ![t] = [r EXCEPT !.pc = "og_mark"]]
            /\ log' = l

\* open_gate lines 273-274
og_mark(t) ==
    /\ th[t].pc = "og_mark"
    /\ LET u == th[t].self IN
       /\ links_from' = [links_from EXCEPT ![u] = MarkFired(@, th[t].src)]
       /\ arrived' = [arrived EXCEPT ![u] = @ \cup {th[t].src}]
    /\ th' = [th EXCEPT ![t].pc = "og_test"]
    /\ UNCHANGED <<links_to, cells, is_initialized, locks, run, fails, repeaters, snapshots, pool,
                   triggers, log, class_attrs>>

\* open_gate lines 275-277
og_test(t) ==
    /\ th[t].pc = "og_test"
    /\ LET u == th[t].self
           r == [th[t] EXCEPT !.seen = arrived[u]]
       IN IF AllFired(links_from[u])
          THEN /\ th' = [th EXCEPT ![t] = [r EXCEPT !.pc = "og_reset"]]
               /\ UNCHANGED <<gate_lock_, log>>
          ELSE /\ GateRelease(u)
               /\ th' = [th EXCEPT ![t] = AfterGate(r, FALSE)]
               /\ CountCall(th[t], u)
    /\ UNCHANGED <<graph, cells, is_initialized, run_lock_, run, fails, repeaters, snapshots, pool,
                   triggers, arrived, class_attrs>>

\* open_gate lines 278-281
og_reset(t) ==
    /\ th[t].pc = "og_reset"
    /\ LET u == th[t].self IN
       /\ links_from' = [links_from EXCEPT ![u] = ResetFlags(@)]
       /\ arrived' = [arrived EXCEPT ![u] = {}]
       /\ GateRelease(u)
       /\ CountCall(th[t], u)
    /\ th' = [th EXCEPT ![t] = AfterGate(@, TRUE)]
    /\ UNCHANGED <<links_to, cells, is_initialized, run_lock_, run, fails, repeaters, snapshots,
                   pool, triggers, class_attrs>>

OpenGate == \E t \in DOMAIN th :
    og_mark(t) \/ og_test(t) \/ og_reset(t)

\* open_gate reads and writes the fields of self alone, so the gate model
\* calls it on one unit, with every unit (itself included) and None as src
GateUnits == {1}

\* A thread calls open_gate(src) on a unit directly
CallOpenGate ==
    \E t \in DOMAIN th, u \in GateUnits, s \in Srcs :
        /\ triggers < MaxCalls
        /\ FirstIdle(t)
        /\ th' = [th EXCEPT ![t] = Begin("open_gate", u, s)]
        /\ triggers' = triggers + 1
        /\ UNCHANGED <<graph, cells, is_initialized, locks, run, fails, repeaters,
                       snapshots, pool, arrived, log, class_attrs>>

\* The thread of a direct call goes on where the gate lock is free
GateEnter ==
    \E t \in DOMAIN th :
        /\ th[t].pc = "og_acquire"
        /\ og_acquire(t, th[t], log)
        /\ UNCHANGED <<graph, cells, is_initialized, run_lock_, run, fails, repeaters,
                       snapshots, pool, triggers, arrived, class_attrs>>

\* Units linked by link_from calls so that one unit has the predecessors P
InitGate ==
    /\ InitFields
    /\ \E u \in GateUnits, P \in SUBSET Units :
         LET E == {<<p, u>> : p \in P} IN
         /\ links_from = LinksFromOf(E)
         /\ links_to = LinksToOf(E)
    /\ th = [t \in 1..MaxGateThreads |-> IdleThread]

NextGate == CallOpenGate \/ GateEnter \/ OpenGate

SpecGate == InitGate /\ [][NextGate]_vars

\* The direct open_gate calls that have returned, by thread
Returned(t, u) == th[t].pc = "idle" /\ th[t].op = "open_gate" /\ th[t].self = u

\* C2: on a unit with N >= 1 predecessors a call of open_gate returns True
\* exactly when every predecessor has called since the last True result: never
\* after only some of them have, and always on the call that completes a round.
C2_OpenOnlyAfterAll ==
    \A u \in Units, t \in DOMAIN th :
        (Returned(t, u) /\ Preds(u) # {}) =>
            ((th[t].res = "open") <=> (Preds(u) \subseteq th[t].seen))

\* C2's case: three predecessors, the third one's call opened the gate
C2_Witness ==
    \E u \in Units, t \in DOMAIN th :
        /\ Returned(t, u)
        /\ Cardinality(Preds(u)) = 3
        /\ th[t].res = "open"
        /\ log[u].calls = 3

\* The threads in T have each made one call on u, one per predecessor, and
\* these are all the calls u has had
OneCallEach(u, T) ==
    /\ \A t \in T : Returned(t, u)
    /\ {th[t].src : t \in T} = Preds(u)
    /\ Cardinality(T) = Cardinality(Preds(u))
    /\ log[u].calls = Cardinality(T)
    /\ \A t \in DOMAIN th : th[t].self = u => th[t].pc = "idle"

\* C3: when the N predecessors of a unit call open_gate concurrently, one call
\* each, exactly one call returns True and all arrival flags are False after.
C3_ExactlyOnceConcurrent ==
    \A u \in Units, T \in SUBSET (DOMAIN th) :
        (Preds(u) # {} /\ OneCallEach(u, T)) =>
            /\ Cardinality({t \in T : th[t].res = "open"}) = 1
            /\ \A p \in Preds(u) : ~links_from[u][p]

\* C3's case: three concurrent callers; the first to call passed the gate
\* lock last and got True, the last to call got False
C3_Witness ==
    \E u \in Units :
        /\ Cardinality(Preds(u)) = 3
        /\ OneCallEach(u, DOMAIN th)
        /\ th[1].res = "open"
        /\ th[3].res = "closed"

\* The graph builder: a sequence of link and unlink calls on fresh units
InitLink ==
    /\ InitUnits
    /\ th = [t \in {1} |-> IdleThread]

NextLink == LinkFrom \/ UnlinkFrom \/ UnlinkFromAll

SpecLink == InitLink /\ [][NextLink]_vars

\* C1: after any sequence of link_from, unlink_from and unlink_from_all calls,
\* B is a key of A.links_to iff A is a key of B.links_from, and no unlink
\* call meets a missing key.
C1_Bidirectional ==
    /\ \A a \in Units, b \in Units :
          (b \in DOMAIN links_to[a]) <=> (a \in DOMAIN links_from[b])
    /\ \A u \in Units : NoKeyError(u)

\* C1's case: a self-link and a repeated edge survive an unlink elsewhere
C1_Witness ==
    /\ 1 \in DOMAIN links_from[1]
    /\ 1 \in DOMAIN links_from[2]
    /\ 3 \in DOMAIN links_to[2]
    /\ DOMAIN links_from[3] = {2}
    /\ DOMAIN links_to[3] = {}

\* -------------------------------------------------------------- dispatch

\* check_gate_and_run line 210: run_lock_.acquire(blocking=False) succeeds
RunLockFree_always(u) == TRUE

RunLockFree(u) == run_lock_[u] = 0

\* check_gate_and_run line 220: run_lock_.release() in the finally clause
RunRelease(u) == run_lock_' = [run_lock_ EXCEPT ![u] = 0]

\* The run lock is held by thread t after the step
RunHeld(t, u) == run_lock_' = [run_lock_ EXCEPT ![u] = t]

\* An exception leaves check_gate_and_run of thread t through the finally
\* clause (lines 219-220)
RaiseExit_locked(t, u) == RunHeld(t, u)

RaiseExit(t, u) == RunRelease(u)

\* check_gate_and_run returns, or an exception leaves it: the thread is free
Finish(r, result) == IdleThread

\* check_gate_and_run line 213: if not self.is_initialized
NeedsInit_never(u) == FALSE

NeedsInit(u) == ~is_initialized[u]

\* check_gate_and_run line 218: self.run() is looked up and called by thread
\* t; a None in the instance attribute is not callable (TypeError), and the
\* finally clause leaves the run lock released
call_run(t, u, l) ==
    IF run[u] = "wrapped"
    THEN /\ th' = [th EXCEPT ![t].pc = "running"]
         /\ log' = Inc(l, u, "started")
         /\ RunHeld(t, u)
    ELSE /\ RaiseExit(t, u)
         /\ th' = [th EXCEPT ![t] = Finish(@, "not_callable")]
         /\ log' = Inc(l, u, "typeerr")

\* check_gate_and_run lines 213-218, in the run lock: initialize() is entered
\* when the unit is not initialized, else run() is called
cgr_init(t, u) ==
    IF NeedsInit(u)
    THEN /\ th' = [th EXCEPT ![t].pc = "initializing"]
         /\ Bump(u, "inits")
         /\ RunHeld(t, u)
    ELSE call_run(t, u, log)

\* check_gate_and_run lines 214-218: initialize() returns, the flag is set
\* and run() is called; or initialize() raises and the finally clause
\* releases the run lock
initialize_end(t) ==
    /\ th[t].pc = "initializing"
    /\ LET u == th[t].self IN
       \/ /\ is_initialized' = [is_initialized EXCEPT ![u] = TRUE]
          /\ call_run(t, u, Inc(log, u, "initok"))
       \/ /\ u \in fails.init
          /\ RaiseExit(t, u)
          /\ th' = [th EXCEPT ![t] = Finish(@, "init_raised")]
          /\ Bump(u, "raised")
          /\ UNCHANGED is_initialized
    /\ UNCHANGED <<graph, cells, gate_lock_, run, fails, repeaters, snapshots, pool, triggers,
                   arrived, class_attrs>>

\* run_dependent line 244: thread_pool().callInThread(dst.check_gate_and_run, self)
callInThread_drop(dst, src) == pool' = pool

callInThread(dst, src) == pool' = [pool EXCEPT ![<<dst, src>>] = @ + 1]

\* run_dependent is entered by thread record r of unit u: with no successor
\* it returns at once, and so does check_gate_and_run
EnterRunDependent(r, u, result) ==
    IF DOMAIN links_to[u] = {}
    THEN Finish(r, result)
    ELSE [r EXCEPT !.pc = "rd", !.res = result, !.todo = DOMAIN links_to[u]]

\* check_gate_and_run lines 203-218: the skip decision; when not skipped, the
\* try-acquire of the run lock and, with the lock, the first call made in it
cgr_skip(t) ==
    /\ th[t].pc = "skip"
    /\ LET u == th[t].self IN
       \E a1, b1, a2, b2 \in BOOLEAN :
          /\ callvle(gate_skip[u], a1) /\ callvle(gate_skip_not[u], b1)
          /\ callvle(gate_skip[u], a2) /\ callvle(gate_skip_not[u], b2)
          /\ IF RoutingCond(a1, b1, a2, b2)
             THEN /\ th' = [th EXCEPT ![t] = EnterRunDependent(@, u, "skipped")]
                  /\ Bump(u, "skips")
                  /\ UNCHANGED run_lock_
             ELSE IF RunLockFree(u)
                  THEN cgr_init(t, u)
                  ELSE /\ th' = [th EXCEPT ![t] = Finish(@, "dropped")]
                       /\ UNCHANGED <<run_lock_, log>>
    /\ UNCHANGED <<graph, cells, is_initialized, gate_lock_, run, fails, repeaters, snapshots, pool,
                   triggers, arrived, class_attrs>>

\* check_gate_and_run lines 218-221: the body returns, the lock is released
\* and run_dependent starts; or the body raises
run_end(t) ==
    /\ th[t].pc = "running"
    /\ LET u == th[t].self IN
       \/ /\ RunRelease(u)
          /\ th' = [th EXCEPT ![t] = EnterRunDependent(@, u, "ran")]
          /\ Bump(u, "runs")
       \/ /\ u \in fails.run
          /\ RaiseExit(t, u)
          /\ th' = [th EXCEPT ![t] = Finish(@, "run_raised")]
          /\ Bump(u, "raised")
    /\ UNCHANGED <<graph, cells, is_initialized, gate_lock_, run, fails, repeaters, snapshots, pool,
                   triggers, arrived, class_attrs>>

\* The thread record after run_dependent has dealt with dst: after the last
\* successor run_dependent and check_gate_and_run return
NextSuccessor(r, dst, submitted) ==
    IF r.todo = {dst}
    THEN Finish(r, r.res)
    ELSE [r EXCEPT !.todo = @ \ {dst},
                   !.sent = IF submitted THEN @ \cup {dst} ELSE @]

\* run_dependent lines 238-244: one successor per step, in any order
run_dependent(t) ==
    /\ th[t].pc = "rd"
    /\ LET u == th[t].self IN
       \E dst \in th[t].todo, a1, b1, a2, b2 \in BOOLEAN :
          /\ callvle(gate_block[dst], a1) /\ callvle(gate_block_not[dst], b1)
          /\ callvle(gate_block[dst], a2) /\ callvle(gate_block_not[dst], b2)
          /\ IF RoutingCond(a1, b1, a2, b2)
             THEN /\ th' = [th EXCEPT ![t] = NextSuccessor(@, dst, FALSE)]
                  /\ UNCHANGED pool
             ELSE /\ callInThread(dst, u)
                  /\ th' = [th EXCEPT ![t] = NextSuccessor(@, dst, TRUE)]
    /\ UNCHANGED <<graph, cells, is_initialized, locks, run, fails, repeaters, snapshots, triggers,
                   arrived, log, class_attrs>>

\* A call of check_gate_and_run starts at the taking of the gate lock: until
\* then it has read and written nothing.

\* The external driver calls check_gate_and_run(None) on a root, a unit
\* without predecessors (on any other unit the call finds the gate closed
\* and marks nothing, None being no key of links_from)
Trigger ==
    \E t \in DOMAIN th, u \in Units :
        /\ Preds(u) = {}
        /\ triggers < MaxTriggers
        /\ FirstIdle(t)
        /\ og_acquire(t, Begin("cgr", u, None), Inc(log, u, "trig"))
        /\ triggers' = triggers + 1
        /\ UNCHANGED <<graph, cells, is_initialized, run_lock_, run, fails, repeaters, snapshots,
                       pool, arrived, class_attrs>>

\* A pool thread starts a submitted task: dst.check_gate_and_run(src)
PoolStart ==
    \E t \in DOMAIN th, task \in Units \X Units :
        /\ pool[task] > 0
        /\ pool' = [pool EXCEPT ![task] = @ - 1]
        /\ FirstIdle(t)
        /\ og_acquire(t, Begin("cgr", task[1], task[2]),
                      IncGot(log, task[1], task[2]))
        /\ UNCHANGED <<graph, cells, is_initialized, run_lock_, run, fails, repeaters, snapshots,
                       triggers, arrived, class_attrs>>

CheckGateAndRun == \E t \in DOMAIN th :
    cgr_skip(t) \/ initialize_end(t) \/ run_end(t)

RunDependent == \E t \in DOMAIN th : run_dependent(t)

\* The graphs of the dispatch model: every acyclic graph on the units whose
\* edges go from a lower to a higher unit
Edges == {e \in Units \X Units : e[1] < e[2]}

\* One unit x may differ from a plain unit: its block pair or its skip pair
\* of routing cells holds any static values, or its initialize() or its run()
\* is one that may raise
InitRouting ==
    \E x \in Units, bk, bn, sk, sn \in BOOLEAN, kind \in {"none", "init", "run"} :
        /\ kind # "none" => ~(bk \/ bn \/ sk \/ sn)
        /\ (bk \/ bn) => ~(sk \/ sn)
        /\ (kind = "none" /\ ~(bk \/ bn \/ sk \/ sn)) => x = 1
        /\ gate_block = [u \in Units |-> StaticCell(u = x /\ bk)]
        /\ gate_block_not = [u \in Units |-> StaticCell(u = x /\ bn)]
        /\ gate_skip = [u \in Units |-> StaticCell(u = x /\ sk)]
        /\ gate_skip_not = [u \in Units |-> StaticCell(u = x /\ sn)]
        /\ fails = [init |-> IF kind = "init" THEN {x} ELSE {},
                    run |-> IF kind = "run" THEN {x} ELSE {}]

Init ==
    /\ InitState
    /\ InitRouting
    /\ \E E \in SUBSET Edges :
         /\ links_from = LinksFromOf(E)
         /\ links_to = LinksToOf(E)
    /\ th = [t \in 1..MaxThreads |-> IdleThread]

Next == Trigger \/ PoolStart \/ OpenGate \/ CheckGateAndRun \/ RunDependent

Spec == Init /\ [][Next]_vars

\* ---------------------------------------------------------------- snapshot

\* The attributes of a unit's __dict__ that the model follows
AttrNames == {"links_from", "links_to", "gate_block", "gate_skip",
              "gate_block_not", "gate_skip_not", "is_initialized",
              "gate_lock_", "run_lock_", "run"}

\* __getstate__ line 46: k[len(k) - 1] == "_"
EndsWithUnderscore(k) == k \in {"gate_lock_", "run_lock_"}

\* __getstate__ line 46: callable(v). __init__ lines 164-165 store the timing
\* wrapper in the instance attribute "run"; lists, dicts, flags and locks are
\* not callable
Callable(u, k) == k = "run" /\ run[u] = "wrapped"

Attr(u, k) ==
    CASE k = "links_from" -> links_from[u]
      [] k = "links_to" -> links_to[u]
      [] k = "gate_block" -> gate_block[u]
      [] k = "gate_skip" -> gate_skip[u]
      [] k = "gate_block_not" -> gate_block_not[u]
      [] k = "gate_skip_not" -> gate_skip_not[u]
      [] k = "is_initialized" -> is_initialized[u]
      [] k = "gate_lock_" -> gate_lock_[u]
      [] k = "run_lock_" -> run_lock_[u]
      [] k = "run" -> run[u]

\* Pickleable.__getstate__: the value is kept, or None is stored
getstate(u) ==
    [k \in AttrNames |->
        IF ~EndsWithUnderscore(k) /\ ~Callable(u, k)
        THEN [none |-> FALSE, v |-> Attr(u, k)]
        ELSE [none |-> TRUE, v |-> "None"]]

\* Pickleable.__setstate__ without the init_unpickled() call of line 56: the
\* lock attributes stay None (-1, no lock)
setstate_noinit(st, k) ==
    IF st[k].none /\ k # "run" THEN -1 ELSE st[k].v

\* History: the locks of u that are held
HeldLocks(u) ==
    (IF gate_lock_[u] # 0 THEN 1 ELSE 0) + (IF run_lock_[u] # 0 THEN 1 ELSE 0)

\* Unit.init_unpickled sets these attributes anew
SetByInitUnpickled(k) == k \in {"gate_lock_", "run_lock_", "is_initialized"}

\* Pickleable.__setstate__ on the state st: __dict__.update(state), then
\* init_unpickled(): new free locks and is_initialized = False
setstate(st, k) ==
    IF SetByInitUnpickled(k)
    THEN (IF k = "is_initialized" THEN FALSE ELSE 0)
    ELSE st[k].v

\* The graph is pickled and restored; the restored units take the place of
\* the original ones. The threads and the submitted tasks belong to the
\* original objects: the restored graph has none.
Resume ==
    /\ snapshots < MaxSnapshots
    /\ snapshots' = snapshots + 1
    /\ links_from' = [u \in Units |-> setstate(getstate(u), "links_from")]
    /\ links_to' = [u \in Units |-> setstate(getstate(u), "links_to")]
    /\ gate_block' = [u \in Units |-> setstate(getstate(u), "gate_block")]
    /\ gate_skip' = [u \in Units |-> setstate(getstate(u), "gate_skip")]
    /\ gate_block_not' = [u \in Units |-> setstate(getstate(u), "gate_block_not")]
    /\ gate_skip_not' = [u \in Units |-> setstate(getstate(u), "gate_skip_not")]
    /\ is_initialized' = [u \in Units |-> setstate(getstate(u), "is_initialized")]
    /\ gate_lock_' = [u \in Units |-> setstate(getstate(u), "gate_lock_")]
    /\ run_lock_' = [u \in Units |-> setstate(getstate(u), "run_lock_")]
    /\ run' = [u \in Units |-> setstate(getstate(u), "run")]
    /\ th' = [t \in DOMAIN th |-> IdleThread]
    /\ pool' = NoTasks
    /\ log' = [u \in Units |-> [log[u] EXCEPT !.held = HeldLocks(u)]]
    /\ UNCHANGED <<fails, repeaters, triggers, arrived, class_attrs>>

\* Plain units on any of the graphs, run and restored
InitSnap ==
    /\ InitFields
    /\ \E E \in SUBSET Edges :
         /\ links_from = LinksFromOf(E)
         /\ links_to = LinksToOf(E)
    /\ th = [t \in 1..MaxThreads |-> IdleThread]

NextSnap == Next \/ Resume

SpecSnap == InitSnap /\ [][NextSnap]_vars

\* ------------------------------------------------------------------ claims

Succs(u) == DOMAIN links_to[u]

\* raw XOR invert of a pair of static cells
Xor(c, cn) == c.v # cn.v
BlockEffective(u) == Xor(gate_block[u], gate_block_not[u])
SkipEffective(u) == Xor(gate_skip[u], gate_skip_not[u])

\* No call is in progress and no task waits in the pool
Quiescent ==
    /\ \A t \in DOMAIN th : th[t].pc = "idle"
    /\ pool = NoTasks

\* The tasks dst.check_gate_and_run(src) submitted so far
Submitted(dst, src) == pool[<<dst, src>>] + log[dst].got[src]

\* The threads in run_dependent of u that have not yet come to dst
Pending(u, dst) ==
    Cardinality({t \in DOMAIN th :
                    th[t].pc = "rd" /\ th[t].self = u /\ dst \in th[t].todo})

\* The threads executing the run() body of u
InBody(u) == {t \in DOMAIN th : th[t].pc = "running" /\ th[t].self = u}

\* C4: at most one run() body of a unit is in flight; an invocation that
\* finds the run lock held returns without starting a body, submitting a task
\* or changing anything.
C4_RunExclusive ==
    /\ [](\A u \in Units : Cardinality(InBody(u)) <= 1)
    /\ [][\A t \in DOMAIN th :
            (/\ th[t].pc = "skip"
             /\ th'[t] # th[t]
             /\ run_lock_[th[t].self] # 0
             /\ ~SkipEffective(th[t].self))
            => (/\ th'[t] = IdleThread
                /\ pool' = pool
                /\ log' = log
                /\ run_lock_' = run_lock_
                /\ is_initialized' = is_initialized)]_vars

\* C4's case: a root was triggered twice; the second call found the first
\* inside the body and was dropped
C4_Witness ==
    \E u \in Units :
        /\ log[u].trig = 2
        /\ log[u].started = 1
        /\ th[1].pc = "running" /\ th[1].self = u
        /\ th[2].pc = "idle"
        /\ ~SkipEffective(u)

\* C5: a unit whose effective block flag is true never executes initialize()
\* or its body and never schedules a successor, whoever triggers it.
C5_BlockedNeverRuns ==
    \A u \in Units :
        BlockEffective(u) =>
            /\ log[u].inits = 0
            /\ log[u].started = 0
            /\ \A d \in Units : Submitted(d, u) = 0

\* C6 as stated: once a skipped unit has been triggered and all calls have
\* ended, every non-blocked successor has been submitted and has run.
C6_SkippedSuccessorsRun ==
    \A u \in Units, d \in Units :
        (/\ Quiescent
         /\ SkipEffective(u)
         /\ log[u].skips > 0
         /\ d \in Succs(u)
         /\ ~BlockEffective(d))
        => (/\ log[u].inits = 0
            /\ log[u].started = 0
            /\ Submitted(d, u) = log[u].skips
            /\ log[d].started > 0)

\* C6 amended: a skipped unit executes neither initialize() nor its body and
\* never takes its run lock; each of its passes submits every non-blocked
\* successor once and no blocked one; a non-blocked successor whose only
\* predecessor is the skipped unit has run once all calls have ended, unless
\* it is itself skipped or its initialize() raises.
C6_SkippedPassesOn ==
    \A u \in Units :
        SkipEffective(u) =>
            /\ log[u].inits = 0
            /\ log[u].started = 0
            /\ run_lock_[u] = 0
            /\ \A d \in Succs(u) :
                  /\ BlockEffective(d) => Submitted(d, u) = 0
                  /\ ~BlockEffective(d) =>
                        Submitted(d, u) = log[u].skips - Pending(u, d)
                  /\ (/\ Quiescent
                      /\ log[u].skips > 0
                      /\ ~BlockEffective(d)
                      /\ Preds(d) = {u}
                      /\ ~SkipEffective(d)
                      /\ d \notin fails.init)
                     => log[d].started > 0

\* C6's case: the skipped root 1 was triggered, its successors 2 and 3 ran
C6_Witness ==
    /\ Quiescent
    /\ SkipEffective(1)
    /\ gate_skip[1].v /\ ~gate_skip_not[1].v
    /\ log[1].skips = 1
    /\ Succs(1) = {2, 3}
    /\ Preds(3) = {1}
    /\ log[2].runs = 1
    /\ log[3].runs = 1

JoinGraph ==
    /\ links_from = LinksFromOf({<<1, 3>>, <<2, 3>>})
    /\ links_to = LinksToOf({<<1, 3>>, <<2, 3>>})

PlainUnits ==
    /\ \A u \in Units : ~BlockEffective(u) /\ ~SkipEffective(u)
    /\ fails = [init |-> {}, run |-> {}]

\* C7: in the graph 1->3, 2->3 of plain units, the body of 3 never executes
\* while only one of the roots has been triggered, and it has executed exactly
\* once when both roots have been triggered once and all calls have ended.
C7_JoinRunsOnce ==
    (JoinGraph /\ PlainUnits) =>
        /\ (log[1].trig = 0 \/ log[2].trig = 0) => log[3].started = 0
        /\ (log[1].trig = 1 /\ log[2].trig = 1) => log[3].started <= 1
        /\ (Quiescent /\ log[1].trig = 1 /\ log[2].trig = 1) => log[3].runs = 1

\* C7's case: both roots triggered, all calls ended, 3 has run
C7_Witness ==
    /\ JoinGraph /\ PlainUnits
    /\ Quiescent
    /\ log[1].trig = 1 /\ log[2].trig = 1
    /\ log[3].runs = 1

\* C8: on a unit restored from a snapshot, as on the original, every call of
\* run() that check_gate_and_run makes executes the body.
C8_RestoredUnitRuns ==
    \A u \in Units : snapshots > 0 => log[u].typeerr = 0

\* C9: initialize() of a unit that is not initialized is entered before its
\* body by every call that takes the run lock, the flag is set and a body runs
\* only after an initialize() that returned; when initialize() raises the flag
\* stays False, the run lock is released, the call ends and nothing is
\* submitted or run.
C9_InitFailureRetried ==
    /\ [](\A u \in Units :
            /\ is_initialized[u] => log[u].initok > 0
            /\ log[u].started > 0 => log[u].initok > 0)
    /\ [][\A t \in DOMAIN th :
            LET u == th[t].self IN
            /\ (th[t].pc = "skip" /\ th'[t].pc \in {"initializing", "running"})
               => (th'[t].pc = "initializing" <=> ~is_initialized[u])
            /\ (/\ th[t].pc = "initializing"
                /\ th'[t] # th[t]
                /\ log'[u].raised > log[u].raised)
               => (/\ ~is_initialized'[u]
                   /\ run_lock_'[u] = 0
                   /\ th'[t] = IdleThread
                   /\ pool' = pool
                   /\ log'[u].started = log[u].started)]_vars

\* C9's case: initialize() of u raised; a later trigger called it again and
\* now runs the body
C9_Witness ==
    \E u \in Units :
        /\ u \in fails.init
        /\ log[u].raised = 1
        /\ log[u].inits = 2
        /\ InBody(u) # {}

\* C10: when the body raises, the run lock is released, the call ends with
\* the exception and submits nothing; only a pass that skipped or whose body
\* returned submits tasks, and a held run lock belongs to a call inside it.
C10_RunFailureReleases ==
    /\ [](\A u \in Units :
            /\ \A d \in Units : Submitted(d, u) <= log[u].skips + log[u].runs
            /\ run_lock_[u] # 0 =>
                  /\ th[run_lock_[u]].self = u
                  /\ th[run_lock_[u]].pc \in {"initializing", "running"})
    /\ [][\A t \in DOMAIN th :
            LET u == th[t].self IN
            (/\ th[t].pc = "running"
             /\ th'[t] # th[t]
             /\ log'[u].raised > log[u].raised)
            => (/\ run_lock_'[u] = 0
                /\ th'[t] = IdleThread
                /\ pool' = pool
                /\ log'[u].runs = log[u].runs)]_vars

\* C10's case: the body of u, which has a successor, raised; a later trigger
\* took the run lock again and its body returned
C10_Witness ==
    \E u \in Units :
        /\ u \in fails.run
        /\ Succs(u) # {}
        /\ log[u].raised = 1
        /\ log[u].runs = 1
        /\ log[u].started = 2
        /\ Quiescent

\* A step that restores the graph from a snapshot
Restored == snapshots' = snapshots + 1

\* C11: is_initialized of a unit becomes True only in a step in which an
\* initialize() of the unit returns, and no step, a restore from a snapshot
\* included, sets it back to False.
C11_InitializedOnce ==
    [][\A u \in Units :
          /\ is_initialized[u] => is_initialized'[u]
          /\ (~is_initialized[u] /\ is_initialized'[u])
             => log'[u].initok = log[u].initok + 1]_vars

\* The value __getstate__ stores for attribute k of u is None
StoredNone(u, k) ==
    getstate(u)[k].none \/ (k = "run" /\ getstate(u)[k].v = "None")

\* C12: __getstate__ stores None for gate_lock_, run_lock_ and the callable
\* run and keeps the other attributes; a restore leaves every unit with
\* free gate and run locks, whatever threads held the locks of the serialized
\* units.
C12_TransientRebuilt ==
    /\ [](\A u \in Units :
            /\ \A k \in {"gate_lock_", "run_lock_", "run"} : StoredNone(u, k)
            /\ \A k \in AttrNames \ {"gate_lock_", "run_lock_", "run"} :
                  ~StoredNone(u, k))
    /\ [][Restored => \A u \in Units : gate_lock_'[u] = 0 /\ run_lock_'[u] = 0]_vars

\* C12's case: a unit serialized while its gate lock was held and another
\* while its run lock was held; the restored units have free locks
C12_Witness ==
    /\ snapshots = 1
    /\ \E u \in Units, v \in Units :
         /\ u # v
         /\ log[u].held = 1 /\ log[u].started = 1
         /\ log[v].held = 1 /\ log[v].started = 0
         /\ gate_lock_[u] = 0 /\ run_lock_[u] = 0
         /\ gate_lock_[v] = 0 /\ run_lock_[v] = 0

\* C13: a restore from a snapshot leaves links_from with its arrival flags,
\* links_to, the four routing cells and is_initialized of every unit as they
\* were when the graph was serialized.
C13_PersistentKept ==
    [][Restored =>
          /\ links_from' = links_from
          /\ links_to' = links_to
          /\ cells' = cells
          /\ is_initialized' = is_initialized]_vars

\* ---------------------------------------------------------------- routing

\* The values a routing cell may hold: 0 or 1, or a zero-argument predicate
CellValues == {StaticCell(FALSE), StaticCell(TRUE), FnCell}

\* The unit whose routing cells take every combination of values
RoutedUnits == {1}

\* Unlinked units; the cells of one of them hold any values
InitRoute ==
    /\ InitState
    /\ links_from = [u \in Units |-> EmptyDict]
    /\ links_to = [u \in Units |-> EmptyDict]
    /\ fails = [init |-> {}, run |-> {}]
    /\ \E x \in RoutedUnits, bk, bn, sk, sn \in CellValues :
         /\ gate_block = [u \in Units |-> IF u = x THEN bk ELSE StaticCell(FALSE)]
         /\ gate_block_not = [u \in Units |-> IF u = x THEN bn ELSE StaticCell(FALSE)]
         /\ gate_skip = [u \in Units |-> IF u = x THEN sk ELSE StaticCell(FALSE)]
         /\ gate_skip_not = [u \in Units |-> IF u = x THEN sn ELSE StaticCell(FALSE)]
    /\ th = [t \in {1} |-> IdleThread]

\* The callvle calls that `and` and `or` let the condition make: the flag;
\* the invert when the flag was true; the flag again when the first operand
\* of `or` was false; the invert again when that second flag reading was
\* false
Taken(a1, b1, a2, b2) ==
    {"a1"} \cup (IF a1 THEN {"b1"} ELSE {})
           \cup (IF ~(a1 /\ ~b1) THEN {"a2"} ELSE {})
           \cup (IF ~(a1 /\ ~b1) /\ ~a2 THEN {"b2"} ELSE {})

\* The thread record after the condition `cond` on unit u was evaluated with
\* the results a1, b1, a2, b2 of its four callvle calls
Evaluated(cond, u, a1, b1, a2, b2) ==
    [IdleThread EXCEPT !.op = cond, !.self = u,
                       !.seen = [a1 |-> a1, b1 |-> b1, a2 |-> a2, b2 |-> b2,
                                 taken |-> Taken(a1, b1, a2, b2)],
                       !.res = IF RoutingCond(a1, b1, a2, b2) THEN "true" ELSE "false"]

\* check_gate_and_run lines 203-206: the skip condition on self
SkipCond ==
    \E u \in RoutedUnits, a1, b1, a2, b2 \in BOOLEAN :
        /\ callvle(gate_skip[u], a1) /\ callvle(gate_skip_not[u], b1)
        /\ callvle(gate_skip[u], a2) /\ callvle(gate_skip_not[u], b2)
        /\ th' = [th EXCEPT ![1] = Evaluated("skip_cond", u, a1, b1, a2, b2)]
        /\ UNCHANGED <<graph, cells, is_initialized, locks, run, fails, repeaters, snapshots,
                       pool, triggers, arrived, log, class_attrs>>

\* run_dependent lines 239-242: the block condition on dst
BlockCond ==
    \E dst \in RoutedUnits, a1, b1, a2, b2 \in BOOLEAN :
        /\ callvle(gate_block[dst], a1) /\ callvle(gate_block_not[dst], b1)
        /\ callvle(gate_block[dst], a2) /\ callvle(gate_block_not[dst], b2)
        /\ th' = [th EXCEPT ![1] = Evaluated("block_cond", dst, a1, b1, a2, b2)]
        /\ UNCHANGED <<graph, cells, is_initialized, locks, run, fails, repeaters, snapshots,
                       pool, triggers, arrived, log, class_attrs>>

NextRoute == SkipCond \/ BlockCond

SpecRoute == InitRoute /\ [][NextRoute]_vars

\* The cell pair a condition reads
FlagCell(r) == IF r.op = "skip_cond" THEN gate_skip[r.self] ELSE gate_block[r.self]
InvertCell(r) ==
    IF r.op = "skip_cond" THEN gate_skip_not[r.self] ELSE gate_block_not[r.self]

\* C14: at both decision points the decision is flag XOR invert: for static
\* values it is their XOR, so (1, 1) decides as (0, 0) does; for predicates
\* it is the XOR of the values they return, and where a predicate returns
\* different values on its two calls, the XOR of values that were returned.
C14_DecisionIsXor ==
    LET r == th[1]
        decision == r.res = "true"
    IN r.op \in {"skip_cond", "block_cond"} =>
        /\ (r.seen.a1 = r.seen.a2 /\ r.seen.b1 = r.seen.b2)
           => (decision <=> (r.seen.a1 # r.seen.b1))
        /\ (~FlagCell(r).fn /\ ~InvertCell(r).fn)
           => (decision <=> (FlagCell(r).v # InvertCell(r).v))
        /\ \E a \in {r.seen.a1, r.seen.a2}, b \in {r.seen.b1, r.seen.b2} :
              decision <=> (a # b)

\* C14's case: the block condition of a unit with a static flag 0 and a
\* predicate invert that returned true: the unit is blocked
C14_Witness ==
    /\ th[1].op = "block_cond"
    /\ gate_block[1] = StaticCell(FALSE)
    /\ gate_block_not[1] = FnCell
    /\ th[1].seen.b1 /\ th[1].seen.b2
    /\ th[1].res = "true"

\* C15: a call of open_gate on a unit without predecessors returns True,
\* whatever its src and whatever calls came before, and changes no field of
\* any unit.
C15_RootGateOpen ==
    /\ [](\A t \in DOMAIN th, u \in Units :
            (Returned(t, u) /\ Preds(u) = {}) => th[t].res = "open")
    /\ [][\A t \in DOMAIN th :
            (/\ th[t].pc = "og_acquire"
             /\ th'[t] # th[t]
             /\ Preds(th[t].self) = {})
            => (/\ th'[t].pc = "idle"
                /\ th'[t].res = "open"
                /\ UNCHANGED <<graph, cells, is_initialized, locks, run, arrived>>)]_vars

\* C15's case: four calls on a unit without predecessors, with None, the unit
\* itself and another unit as src, all returned True
C15_Witness ==
    \E u \in Units :
        /\ Preds(u) = {}
        /\ log[u].calls = 4
        /\ \A t \in DOMAIN th : Returned(t, u) /\ th[t].res = "open"
        /\ th[1].src = None /\ th[2].src = u /\ th[3].src \notin {None, u}

\* ------------------------------------------- links changed while gates work

\* The thread record after a link or unlink call on self returned
Called(operation, self, src, result) ==
    [IdleThread EXCEPT !.op = operation, !.self = self, !.src = src,
                       !.res = result]

\* A thread calls self.link_from(src) on the unit whose gate is called, with
\* any unit (itself included) as src
CallLinkFrom ==
    \E t \in DOMAIN th, self \in GateUnits, src \in Units :
        /\ triggers < MaxRaceCalls
        /\ th[t].pc = "idle"
        /\ link_from(self, src)
        /\ th' = [th EXCEPT ![t] = Called("link_from", self, src, "none")]
        /\ triggers' = triggers + 1
        /\ UNCHANGED <<cells, is_initialized, locks, run, fails, repeaters, snapshots, pool,
                       arrived, log, class_attrs>>

\* A thread calls self.unlink_from(src) on that unit
CallUnlinkFrom ==
    \E t \in DOMAIN th, self \in GateUnits, src \in Units :
        /\ triggers < MaxRaceCalls
        /\ th[t].pc = "idle"
        /\ unlink_from(self, src)
        /\ th' = [th EXCEPT ![t] =
                    Called("unlink_from", self, src,
                           IF src \in DOMAIN links_from[self]
                           THEN "removed" ELSE "absent")]
        /\ triggers' = triggers + 1
        /\ UNCHANGED <<cells, is_initialized, locks, run, fails, repeaters, snapshots, pool,
                       arrived, log, class_attrs>>

\* A thread calls self.unlink_from_all() on any unit
CallUnlinkFromAll ==
    \E t \in DOMAIN th, self \in Units :
        /\ triggers < MaxRaceCalls
        /\ th[t].pc = "idle"
        /\ unlink_from_all(self)
        /\ th' = [th EXCEPT ![t] = Called("unlink_from_all", self, None, "none")]
        /\ triggers' = triggers + 1
        /\ UNCHANGED <<cells, is_initialized, locks, run, fails, repeaters, snapshots, pool,
                       arrived, log, class_attrs>>

\* One unit with any predecessors, as in the gate model, and two threads
InitRace ==
    /\ InitFields
    /\ \E u \in GateUnits, P \in SUBSET Units :
         LET E == {<<p, u>> : p \in P} IN
         /\ links_from = LinksFromOf(E)
         /\ links_to = LinksToOf(E)
    /\ th = [t \in 1..MaxRaceThreads |-> IdleThread]

\* A thread calls open_gate(src) on the unit
RaceOpenGate == triggers < MaxRaceCalls /\ CallOpenGate

NextRace ==
    \/ RaceOpenGate \/ GateEnter \/ OpenGate
    \/ CallLinkFrom \/ CallUnlinkFrom \/ CallUnlinkFromAll

SpecRace == InitRace /\ [][NextRace]_vars

\* The edge src -> self, in links_from or in links_to
EdgeIn(lf, self, src) == src \in DOMAIN lf[self]

\* C16: a call self.unlink_from(src) raises nothing; it removes the edge
\* src -> self from self.links_from and src.links_to and leaves every other
\* key and every other arrival flag as it was, so it changes nothing when the
\* edge is absent, as it is after the call.
C16_UnlinkIdempotent ==
    [][\A t \in DOMAIN th :
          (th'[t] # th[t] /\ th'[t].op = "unlink_from") =>
             LET self == th'[t].self
                 src == th'[t].src
             IN /\ \A u \in Units, k \in Units :
                      /\ EdgeIn(links_from', u, k)
                         <=> (EdgeIn(links_from, u, k) /\ <<u, k>> # <<self, src>>)
                      /\ EdgeIn(links_to', u, k)
                         <=> (EdgeIn(links_to, u, k) /\ <<u, k>> # <<src, self>>)
                      /\ EdgeIn(links_from', u, k) => links_from'[u][k] = links_from[u][k]
                      /\ EdgeIn(links_to', u, k) => links_to'[u][k] = links_to[u][k]
                /\ (th'[t].res = "absent") => UNCHANGED graph
                /\ (th'[t].res = "absent") <=> ~EdgeIn(links_from, self, src)
                /\ ~EdgeIn(links_from', self, src) /\ ~EdgeIn(links_to', src, self)]_vars

\* C16's case: unlink_from(3) was called twice on unit 1; the first call
\* removed the edge, the second found it absent; the arrival flag of the
\* other predecessor, set before, is still set
C16_Witness ==
    /\ th[1] = Called("unlink_from", 1, 3, "removed")
    /\ th[2] = Called("unlink_from", 1, 3, "absent")
    /\ DOMAIN links_from[1] = {2}
    /\ links_from[1][2]
    /\ DOMAIN links_to[2] = {1}
    /\ DOMAIN links_to[3] = {}

\* The step is made by thread t while it holds the gate lock of u: inside
\* open_gate, or for the length of an unlink call on u
StepHoldingGate(t, u) ==
    /\ th'[t] # th[t]
    /\ \/ gate_lock_[u] = t
       \/ th'[t].op \in {"unlink_from", "unlink_from_all"} /\ th'[t].self = u

\* C19: a step changes links_from or links_to of a unit only while the thread
\* that makes it holds the gate lock of that unit, so while a thread is
\* inside open_gate of a unit no other thread changes the unit's links_from.
C19_MutationsLocked ==
    [][\A u \in Units :
          /\ (links_from'[u] # links_from[u] \/ links_to'[u] # links_to[u])
             => \E t \in DOMAIN th : StepHoldingGate(t, u)
          /\ (gate_lock_[u] # 0 /\ links_from'[u] # links_from[u])
             => th'[gate_lock_[u]] # th[gate_lock_[u]]]_vars

\* --------------------------------------------------------------- thread pool

\* Unit.pool_lock_.acquire() by thread t: blocks while the lock is held
PoolLockAcquire_nolock(t) == pool_lock_' = pool_lock_

PoolLockAcquire(t) ==
    /\ pool_lock_ = 0
    /\ pool_lock_' = t

\* thread_pool line 179
tp_acquire(t) ==
    /\ th[t].pc = "tp_acquire"
    /\ PoolLockAcquire(t)
    /\ th' = [th EXCEPT ![t].pc = "tp_test"]
    /\ UNCHANGED pool_

\* thread_pool line 181: if Unit.pool_ == None
tp_test(t) ==
    /\ th[t].pc = "tp_test"
    /\ th' = [th EXCEPT ![t].pc = IF pool_ = None THEN "tp_new" ELSE "tp_release"]
    /\ UNCHANGED class_attrs

\* thread_pool line 182: Unit.pool_ = thread_pool.ThreadPool(), a new instance;
\* the instances are numbered as they are constructed and each one is
\* assigned to Unit.pool_ as it is, so that pool_ is also their count
tp_new(t) ==
    /\ th[t].pc = "tp_new"
    /\ pool_' = pool_ + 1
    /\ th' = [th EXCEPT ![t].pc = "tp_release"]
    /\ UNCHANGED pool_lock_

\* thread_pool line 184: finally: Unit.pool_lock_.release()
tp_release(t) ==
    /\ th[t].pc = "tp_release"
    /\ pool_lock_' = 0
    /\ th' = [th EXCEPT ![t].pc = "tp_return"]
    /\ UNCHANGED pool_

\* thread_pool line 185: return Unit.pool_
tp_return(t) ==
    /\ th[t].pc = "tp_return"
    /\ th' = [th EXCEPT ![t].pc = "idle", ![t].res = pool_]
    /\ UNCHANGED class_attrs

ThreadPool ==
    \E t \in DOMAIN th :
        /\ tp_acquire(t) \/ tp_test(t) \/ tp_new(t) \/ tp_release(t) \/ tp_return(t)
        /\ UNCHANGED <<graph, cells, is_initialized, locks, run, fails, repeaters, snapshots,
                       pool, triggers, arrived, log>>

\* A thread calls thread_pool() on a unit
CallThreadPool ==
    \E t \in DOMAIN th, u \in Units :
        /\ triggers < MaxCalls
        /\ FirstIdle(t)
        /\ th' = [th EXCEPT ![t] = [IdleThread EXCEPT !.pc = "tp_acquire",
                                                      !.op = "thread_pool",
                                                      !.self = u]]
        /\ triggers' = triggers + 1
        /\ UNCHANGED <<graph, cells, is_initialized, locks, run, fails, repeaters, snapshots,
                       pool, arrived, log, class_attrs>>

\* The process before the first thread_pool() call
InitPool ==
    /\ InitUnits
    /\ th = [t \in 1..MaxGateThreads |-> IdleThread]

NextPool == CallThreadPool \/ ThreadPool

SpecPool == InitPool /\ [][NextPool]_vars

\* The thread_pool() calls that have returned
PoolReturned(t) == th[t].pc = "idle" /\ th[t].op = "thread_pool"

\* C17: under every interleaving of thread_pool() calls on any units at most
\* one ThreadPool is ever constructed and every call returns that instance.
C17_PoolConstructedOnce ==
    /\ pool_ \in {None, 1}
    /\ \A t \in DOMAIN th : PoolReturned(t) => (th[t].res = 1 /\ pool_ = 1)

\* C17's case: three concurrent calls on three units; one has returned the
\* pool, one holds the pool lock and one waits for it
C17_Witness ==
    /\ PoolReturned(1) /\ th[1].res = 1
    /\ th[2].pc = "tp_test" /\ pool_lock_ = 2
    /\ th[3].pc = "tp_acquire"
    /\ {th[t].self : t \in DOMAIN th} = Units

\* ------------------------------------------------------ initialize_dependent

\* initialize_dependent line 227: if dst.is_initialized
DepInitialized_never(dst) == FALSE

DepInitialized(dst) == is_initialized[dst]

\* The locals of the thread when the loop of unit r.self calls
\* dst.open_gate(self): the loop, with the successors left, waits on the stack
Visit(r, dst) ==
    [r EXCEPT !.pc = "og_acquire", !.self = dst, !.src = r.self, !.todo = {},
              !.stack = <<[unit |-> r.self, todo |-> r.todo \ {dst}]>> \o @]

\* initialize_dependent lines 226-229: the next successor, in any order; an
\* initialized one is passed over, on any other open_gate(self) is called
id_loop(t) ==
    /\ th[t].pc = "id_loop"
    /\ \E dst \in th[t].todo :
          IF DepInitialized(dst)
          THEN /\ th' = [th EXCEPT ![t] = Continue([@ EXCEPT !.todo = @ \ {dst}])]
               /\ UNCHANGED <<gate_lock_, log>>
          ELSE og_acquire(t, Visit(th[t], dst), log)
    /\ UNCHANGED <<graph, cells, is_initialized, run_lock_, run, fails, repeaters, snapshots,
                   pool, triggers, arrived, class_attrs>>

\* initialize_dependent lines 231-233: dst.initialize() returns, the flag is
\* set and dst.initialize_dependent() is called; or initialize() raises, which
\* ends every initialize_dependent call on the stack
id_init_flagfirst(t) ==
    /\ th[t].pc = "id_init"
    /\ LET dst == th[t].self IN
       /\ is_initialized' = [is_initialized EXCEPT ![dst] = TRUE]
       /\ \/ /\ Bump(dst, "depinit")
             /\ th' = [th EXCEPT ![t] = Continue([@ EXCEPT !.todo = DOMAIN links_to[dst]])]
          \/ /\ dst \in fails.init
             /\ Bump(dst, "raised")
             /\ th' = [th EXCEPT ![t] = IdleThread]
    /\ UNCHANGED <<graph, cells, locks, run, fails, repeaters, snapshots, pool, triggers,
                   arrived, class_attrs>>

id_init(t) ==
    /\ th[t].pc = "id_init"
    /\ LET dst == th[t].self IN
       \/ /\ is_initialized' = [is_initialized EXCEPT ![dst] = TRUE]
          /\ Bump(dst, "depinit")
          /\ th' = [th EXCEPT ![t] = Continue([@ EXCEPT !.todo = DOMAIN links_to[dst]])]
       \/ /\ dst \in fails.init
          /\ Bump(dst, "raised")
          /\ th' = [th EXCEPT ![t] = IdleThread]
          /\ UNCHANGED is_initialized
    /\ UNCHANGED <<graph, cells, locks, run, fails, repeaters, snapshots, pool, triggers,
                   arrived, class_attrs>>

InitializeDependent == \E t \in DOMAIN th : id_loop(t) \/ id_init(t)

\* The external driver calls initialize_dependent() on a unit
CallInitializeDependent ==
    \E t \in DOMAIN th, u \in Units :
        /\ triggers < MaxTriggers
        /\ FirstIdle(t)
        /\ th' = [th EXCEPT ![t] =
                    Continue([IdleThread EXCEPT !.op = "initdep", !.self = u,
                                                !.todo = DOMAIN links_to[u]])]
        /\ Bump(u, "dep")
        /\ triggers' = triggers + 1
        /\ UNCHANGED <<graph, cells, is_initialized, locks, run, fails, repeaters, snapshots,
                       pool, arrived, class_attrs>>

\* Units with plain routing cells on any of the graphs; initialize() of unit
\* 3, a successor at depth one or two in them, may be one that raises
InitDep ==
    /\ InitState
    /\ gate_block = [u \in Units |-> StaticCell(FALSE)]
    /\ gate_skip = [u \in Units |-> StaticCell(FALSE)]
    /\ gate_block_not = [u \in Units |-> StaticCell(FALSE)]
    /\ gate_skip_not = [u \in Units |-> StaticCell(FALSE)]
    /\ \E F \in {{}, {3}} : fails = [init |-> F, run |-> {}]
    /\ \E E \in SUBSET Edges :
         /\ links_from = LinksFromOf(E)
         /\ links_to = LinksToOf(E)
    /\ th = [t \in 1..MaxThreads |-> IdleThread]

\* Initialization traversals and dispatch, in any order and concurrently
NextDep == Next \/ CallInitializeDependent \/ InitializeDependent

SpecDep == InitDep /\ [][NextDep]_vars

\* Thread t, inside an initialize_dependent traversal, makes the step
DepStep(t) == th[t].op = "initdep" /\ th'[t] # th[t]

\* The units a traversal from root initializes when no unit is initialized
\* before: those all of whose predecessors are the root or initialized by it
RECURSIVE Reached(_, _)
Reached(root, u) ==
    /\ Preds(u) # {}
    /\ \A p \in Preds(u) : p = root \/ Reached(root, p)

\* One initialize_dependent call on root was all the driver did, and it has
\* returned without an exception
TraversedFrom(root) ==
    /\ triggers = 1
    /\ log[root].dep = 1
    /\ Quiescent
    /\ \A u \in Units : log[u].raised = 0

C18_InitializedInLock ==
    \A t \in DOMAIN th :
        th[t].pc = "running" =>
            /\ is_initialized[th[t].self]
            /\ log[th[t].self].initok > 0

\* C18 amended: while a run() body of a unit executes, is_initialized of the
\* unit is True and an initialize() of it has returned before the body
\* started: inside a run-lock critical section of check_gate_and_run, or in
\* an initialize_dependent traversal, which takes no run lock.
C18_InitializedBeforeRun ==
    /\ \A t \in DOMAIN th :
          th[t].pc = "running" => is_initialized[th[t].self]
    /\ \A u \in Units :
          /\ log[u].started > 0 => (log[u].initok > 0 \/ log[u].depinit > 0)
          /\ is_initialized[u] => (log[u].initok > 0 \/ log[u].depinit > 0)

\* C18's case: the body of a unit runs that a traversal initialized and
\* check_gate_and_run did not
C18_Witness ==
    \E t \in DOMAIN th :
        /\ th[t].pc = "running"
        /\ log[th[t].self].depinit = 1
        /\ log[th[t].self].inits = 0

\* --------------------------------------------------- pre-warming with flags

\* Fresh units on any of the graphs; the block pair of one unit holds any
\* static values
InitWarm ==
    /\ InitState
    /\ \E x \in Units, bk, bn \in BOOLEAN :
         /\ gate_block = [u \in Units |-> StaticCell(u = x /\ bk)]
         /\ gate_block_not = [u \in Units |-> StaticCell(u = x /\ bn)]
    /\ gate_skip = [u \in Units |-> StaticCell(FALSE)]
    /\ gate_skip_not = [u \in Units |-> StaticCell(FALSE)]
    /\ fails = [init |-> {}, run |-> {}]
    /\ \E E \in SUBSET Edges :
         /\ links_from = LinksFromOf(E)
         /\ links_to = LinksToOf(E)
    /\ th = [t \in 1..MaxThreads |-> IdleThread]

\* Initialization traversals alone
NextWarm == CallInitializeDependent \/ InitializeDependent \/ OpenGate

SpecWarm == InitWarm /\ [][NextWarm]_vars

\* C21: initialize_dependent neither initializes nor recurses into a unit
\* whose effective block flag is true.
C21_BlockedNotInitialized ==
    \A u \in Units :
        BlockEffective(u) =>
            /\ ~is_initialized[u]
            /\ log[u].depinit = 0
            /\ \A t \in DOMAIN th :
                  th[t].op = "initdep" /\ th[t].stack # <<>> => th[t].self # u

\* ------------------------------------------------- readings of a decision

\* The values the calls of a decision on the flag cell and on the invert cell
\* returned, by call
FlagReadings(r) == {n \in r.seen.taken : n \in {"a1", "a2"}}
InvertReadings(r) == {n \in r.seen.taken : n \in {"b1", "b2"}}

\* C22: a decision on a cell pair that holds a predicate reads each cell
\* once, and equals the XOR of the one flag reading and the one invert
\* reading.
C22_SingleReading ==
    LET r == th[1]
        decision == r.res = "true"
    IN (r.op \in {"skip_cond", "block_cond"} /\ (FlagCell(r).fn \/ InvertCell(r).fn)) =>
        /\ Cardinality(FlagReadings(r)) = 1
        /\ Cardinality(InvertReadings(r)) = 1
        /\ \A a \in FlagReadings(r), b \in InvertReadings(r) :
              decision <=> (r.seen[a] # r.seen[b])

\* ------------------------------------------- unlink_from_all, step by step

\* The thread record after an exception left the operation of r
Raised(r, exception) ==
    [IdleThread EXCEPT !.op = r.op, !.self = r.self, !.res = exception]

\* unlink_from_all line 286: acquire() blocks until the gate lock is free;
\* the first for loop starts on the keys of links_from
ufa_acquire(t) ==
    /\ th[t].pc = "ufa_acquire"
    /\ LET u == th[t].self IN
       /\ GateAcquire(t, u)
       /\ th' = [th EXCEPT ![t] = [@ EXCEPT !.pc = "ufa_srcs",
                                            !.todo = DOMAIN links_from[u],
                                            !.seen = DOMAIN links_from[u]]]
    /\ UNCHANGED <<graph, cells, is_initialized, run_lock_, run, fails, repeaters, snapshots,
                   pool, triggers, arrived, log, class_attrs>>

\* unlink_from_all line 287: the iterator of the first loop gives the next
\* src. It raises RuntimeError when the size of links_from is no longer what
\* it was when the loop started. The exception is not caught and nothing
\* releases the gate lock.
ufa_srcs(t) ==
    /\ th[t].pc = "ufa_srcs"
    /\ LET u == th[t].self IN
       IF Cardinality(DOMAIN links_from[u]) # Cardinality(th[t].seen)
       THEN /\ th' = [th EXCEPT ![t] = Raised(@, "RuntimeError")]
            /\ UNCHANGED graph
       ELSE IF th[t].todo = {}
       THEN /\ th' = [th EXCEPT ![t] = [@ EXCEPT !.pc = "ufa_dsts",
                                                 !.todo = DOMAIN links_to[u],
                                                 !.seen = DOMAIN links_to[u]]]
            /\ UNCHANGED graph
       ELSE \E src \in th[t].todo :
              /\ th' = [th EXCEPT ![t] = [@ EXCEPT !.pc = "ufa_del_src",
                                                   !.src = src,
                                                   !.todo = @ \ {src}]]
              /\ UNCHANGED graph
    /\ UNCHANGED <<cells, is_initialized, locks, run, fails, repeaters, snapshots, pool,
                   triggers, arrived, log, class_attrs>>

\* unlink_from_all line 288: del raises KeyError when src.links_to lacks
\* self; the gate lock stays acquired
ufa_del_src(t) ==
    /\ th[t].pc = "ufa_del_src"
    /\ LET u == th[t].self
           src == th[t].src
       IN IF u \in DOMAIN links_to[src]
          THEN /\ links_to' = [links_to EXCEPT ![src] = Del(@, u)]
               /\ th' = [th EXCEPT ![t] = [@ EXCEPT !.pc = "ufa_srcs", !.src = None]]
               /\ UNCHANGED links_from
          ELSE /\ th' = [th EXCEPT ![t] = Raised(@, "KeyError")]
               /\ UNCHANGED graph
    /\ UNCHANGED <<cells, is_initialized, locks, run, fails, repeaters, snapshots, pool,
                   triggers, arrived, log, class_attrs>>

\* unlink_from_all line 289: the iterator of the second loop, likewise
ufa_dsts(t) ==
    /\ th[t].pc = "ufa_dsts"
    /\ LET u == th[t].self IN
       IF Cardinality(DOMAIN links_to[u]) # Cardinality(th[t].seen)
       THEN /\ th' = [th EXCEPT ![t] = Raised(@, "RuntimeError")]
            /\ UNCHANGED graph
       ELSE IF th[t].todo = {}
       THEN /\ th' = [th EXCEPT ![t] = [@ EXCEPT !.pc = "ufa_clear", !.seen = {}]]
            /\ UNCHANGED graph
       ELSE \E dst \in th[t].todo :
              /\ th' = [th EXCEPT ![t] = [@ EXCEPT !.pc = "ufa_del_dst",
                                                   !.src = dst,
                                                   !.todo = @ \ {dst}]]
              /\ UNCHANGED graph
    /\ UNCHANGED <<cells, is_initialized, locks, run, fails, repeaters, snapshots, pool,
                   triggers, arrived, log, class_attrs>>

\* unlink_from_all line 290: del raises KeyError when dst.links_from lacks
\* self (dst is kept in the thread's src field)
ufa_del_dst(t) ==
    /\ th[t].pc = "ufa_del_dst"
    /\ LET u == th[t].self
           dst == th[t].src
       IN IF u \in DOMAIN links_from[dst]
          THEN /\ links_from' = [links_from EXCEPT ![dst] = Del(@, u)]
               /\ th' = [th EXCEPT ![t] = [@ EXCEPT !.pc = "ufa_dsts", !.src = None]]
               /\ UNCHANGED links_to
          ELSE /\ th' = [th EXCEPT ![t] = Raised(@, "KeyError")]
               /\ UNCHANGED graph
    /\ UNCHANGED <<cells, is_initialized, locks, run, fails, repeaters, snapshots, pool,
                   triggers, arrived, log, class_attrs>>

\* unlink_from_all lines 291-293: both maps are cleared, the lock is released
ufa_clear(t) ==
    /\ th[t].pc = "ufa_clear"
    /\ LET u == th[t].self IN
       /\ links_from' = [links_from EXCEPT ![u] = EmptyDict]
       /\ links_to' = [links_to EXCEPT ![u] = EmptyDict]
       /\ GateRelease(u)
       /\ th' = [th EXCEPT ![t] = Called("unlink_from_all", u, None, "returned")]
    /\ UNCHANGED <<cells, is_initialized, run_lock_, run, fails, repeaters, snapshots, pool,
                   triggers, arrived, log, class_attrs>>

UnlinkFromAllSteps ==
    \E t \in DOMAIN th :
        \/ ufa_acquire(t) \/ ufa_srcs(t) \/ ufa_del_src(t)
        \/ ufa_dsts(t) \/ ufa_del_dst(t) \/ ufa_clear(t)

\* A thread calls self.unlink_from_all() on any unit
EnterUnlinkFromAll ==
    \E t \in DOMAIN th, self \in Units :
        /\ triggers < MaxRaceCalls
        /\ th[t].pc = "idle"
        /\ th' = [th EXCEPT ![t] = [IdleThread EXCEPT !.pc = "ufa_acquire",
                                                      !.op = "unlink_from_all",
                                                      !.self = self]]
        /\ triggers' = triggers + 1
        /\ UNCHANGED <<graph, cells, is_initialized, locks, run, fails, repeaters, snapshots,
                       pool, arrived, log, class_attrs>>

\* Fresh units on any of the graphs, and the threads that call
InitTear ==
    /\ InitFields
    /\ \E E \in SUBSET Edges :
         /\ links_from = LinksFromOf(E)
         /\ links_to = LinksToOf(E)
    /\ th = [t \in 1..MaxRaceThreads |-> IdleThread]

NextTear == EnterUnlinkFromAll \/ UnlinkFromAllSteps

SpecTear == InitTear /\ [][NextTear]_vars

\* C23: no thread holds a gate lock while it executes an initialize() or
\* run() body, and a gate lock that is held is held by a thread that is still
\* inside the operation that acquired it on that unit: no exit of open_gate,
\* unlink_from or unlink_from_all leaves the lock acquired.
C23_GateLockReleased ==
    \A u \in Units :
        gate_lock_[u] # 0 =>
            /\ th[gate_lock_[u]].pc \notin {"idle", "initializing", "running"}
            /\ th[gate_lock_[u]].self = u

\* ------------------------------------------------------- a wave, with fairness

\* Plain units on any of the acyclic graphs
InitWave ==
    /\ InitFields
    /\ \E E \in SUBSET Edges :
         /\ links_from = LinksFromOf(E)
         /\ links_to = LinksToOf(E)
    /\ th = [t \in 1..MaxThreads |-> IdleThread]

\* The pool executes every submitted task and every thread that can take a
\* step of its call does so; the driver triggers roots when it likes
SpecWave ==
    /\ InitWave
    /\ [][Next]_vars
    /\ WF_vars(PoolStart)
    /\ WF_vars(OpenGate)
    /\ WF_vars(CheckGateAndRun)
    /\ WF_vars(RunDependent)

Roots == {u \in Units : Preds(u) = {}}

\* Every root has been triggered, and none more than once
RootsTriggeredOnce == \A u \in Roots : log[u].trig = 1

\* C24: while no root has been triggered twice no unit starts a second body,
\* and no body of a unit starts before a body of each of its predecessors has
\* finished; once every root has been triggered once, every unit's body comes
\* to have executed exactly once (unless the driver triggers a root again).
C24_WaveRunsEachOnce ==
    /\ []((\A r \in Roots : log[r].trig <= 1) =>
            \A u \in Units :
                /\ log[u].started <= 1
                /\ log[u].started > 0 =>
                      \A p \in Preds(u) : log[p].runs = 1 /\ InBody(p) = {})
    /\ RootsTriggeredOnce ~>
          (~RootsTriggeredOnce \/ \A u \in Units : log[u].runs = 1)

\* C24's case: on the graph 1->2, 1->3, 2->3 the one root was triggered once
\* and the bodies of all three units have executed once
C24_Witness ==
    /\ links_from = LinksFromOf({<<1, 2>>, <<1, 3>>, <<2, 3>>})
    /\ log[1].trig = 1
    /\ \A u \in Units : log[u].runs = 1 /\ log[u].started = 1
    /\ Quiescent

\* ------------------------------------------------- arrival flags, pre-warmed

\* C25: when an initialize_dependent call, all the driver did, has returned,
\* every arrival flag in links_from of every unit is False.
C25_FlagsClearAfterTraversal ==
    \A root \in Units :
        TraversedFrom(root) =>
            \A u \in Units : \A p \in Preds(u) : ~links_from[u][p]

\* --------------------------------------------- traversal of graphs with cycles

\* link_from accepts any pair of units, those that close a cycle and
\* self.link_from(self) included
AllEdges == Units \X Units

\* Plain fresh units, any of them Repeaters, on any graph; one driver thread
InitLoop ==
    /\ InitFresh
    /\ InitPlain
    /\ repeaters \in SUBSET Units
    /\ \E E \in SUBSET AllEdges :
         /\ links_from = LinksFromOf(E)
         /\ links_to = LinksToOf(E)
    /\ th = [t \in {1} |-> IdleThread]

\* The driver calls initialize_dependent() on a unit, one call after another
LoopCall == triggers < MaxTraversals /\ CallInitializeDependent

NextLoop == LoopCall \/ InitializeDependent \/ OpenGate

\* The thread goes on with the traversal it is in: every initialize() and
\* every open_gate call returns
SpecLoop ==
    /\ InitLoop
    /\ [][NextLoop]_vars
    /\ WF_vars(InitializeDependent)
    /\ WF_vars(OpenGate)

\* C26: on every graph, with cycles and Repeaters, an initialize_dependent
\* call returns; each recursive call is preceded by marking as initialized a
\* unit that was not, and the recursion is never deeper than the number of
\* units.
C26_TraversalTerminates ==
    /\ [](Len(th[1].stack) <= Cardinality(Units))
    /\ [][(th[1].pc = "id_init" /\ th'[1] # th[1]) =>
             /\ ~is_initialized[th[1].self]
             /\ is_initialized'[th[1].self]]_vars
    /\ (th[1].op = "initdep") ~> (th[1].pc = "idle")

\* C26's case: on the cycle 1 -> 2 -> 1, where the Repeater 2 has a second
\* predecessor that never notifies, the traversal from 1 has returned after
\* it initialized 2 and then 1
C26_Witness ==
    /\ repeaters = {2}
    /\ links_from = LinksFromOf({<<1, 2>>, <<2, 1>>, <<3, 2>>})
    /\ TraversedFrom(1)
    /\ is_initialized = [u \in Units |-> u # 3]
    /\ log[1].depinit = 1 /\ log[2].depinit = 1

\* ------------------------------------------------ initialize(), exclusively

\* The threads inside initialize() of u called by check_gate_and_run
InInitialize(u) == {t \in DOMAIN th : th[t].pc = "initializing" /\ th[t].self = u}

\* C27: at most one thread is inside initialize() of a unit, none while a
\* run() body of the unit executes, and a traversal executes initialize() of
\* a unit only while no other thread is inside initialize() or the run()
\* body of that unit.
C27_InitializeExclusive ==
    /\ [](\A u \in Units :
            /\ Cardinality(InInitialize(u)) <= 1
            /\ InInitialize(u) # {} => InBody(u) = {})
    /\ [][\A t \in DOMAIN th :
            (th[t].op = "initdep" /\ th[t].pc = "id_init" /\ th'[t] # th[t]) =>
               /\ InInitialize(th[t].self) = {}
               /\ InBody(th[t].self) = {}]_vars

====
